---- MODULE Spec2Model ----
(***************************************************************************)
(* A model of RingQueue[T] (src/queue.go): a queue in a ring buffer whose  *)
(* storage is a block of cap slots reached through a scalar pointer.       *)
(*                                                                         *)
(* The heap is a function from block pointers to blocks; physical slot i   *)
(* (0-based in the source) of block p is mem[p][i + 1].  A slice into the  *)
(* storage is a pair [lo, hi) of physical offsets, and slicing outside     *)
(* [0, cap] panics as Go's bounds checks do.  A panic stops the program:   *)
(* the fields keep what was assigned before the panicking statement.       *)
(*                                                                         *)
(* len, cap, ridx and widx are uint32 in the source.  TLC's integers are   *)
(* 32-bit signed, so the unsigned range is scaled down to UintRange        *)
(* values; all arithmetic on the four fields is taken modulo UintRange.    *)
(***************************************************************************)
EXTENDS Integers, Sequences, FiniteSets, TLC

VARIABLES q, c, cloned, mem, grain, list, net, last, panicked

vars == <<q, c, cloned, mem, grain, list, net, last, panicked>>

----------------------------------------------------------------------------
(* Bounds of the model *)

\* largest capacity a request may be rounded to
MaxCap == 3
\* largest count argument / largest length of a QueueMany argument
MaxN == 2
\* largest capacity of a destination slice of DequeueManyInto
MaxDest == 1
\* calls explored on the two queues after a Clone
MaxAfterClone == 1
\* largest capacity of a queue that is cloned
MaxCloneCap == 2
\* allocator size-class granularities (in elements) that are modelled
MaxGrain == 2
\* number of block pointers (two queues and one block in transit)
MaxPtr == 3

\* number of values of the unsigned integer type of len/cap/ridx/widx
\* (2^32 in the source, scaled)
UintRange == 16

NilPtr == 0
Zero == 0

\* The element type T is a type parameter and no operation inspects an
\* element, so two distinct element values show every reordering, loss or
\* duplication; one of them is the zero value that fresh storage holds.
Val == {Zero, 1}
Ptrs == 1..MaxPtr
Counts == 0..MaxN
\* counts so large that len + n leaves the unsigned range
WideCounts == {UintRange - 1, UintRange - 2}
\* counts asked of DequeueMany and InreaseReadIndex: also the largest one
TakeCounts == Counts \cup {UintRange - 1}

----------------------------------------------------------------------------
(* Helpers *)

Min(a, b) == IF a < b THEN a ELSE b

Max(a, b) == IF a < b THEN b ELSE a

\* unsigned arithmetic of the fields
U32(x) == x % UintRange

Zeros(n) == [i \in 1..n |-> Zero]

Take(s, n) == SubSeq(s, 1, n)

Drop(s, n) == SubSeq(s, n + 1, Len(s))

\* all sequences over Val of length 0..n
RECURSIVE SeqsUpTo(_)
SeqsUpTo(n) ==
  IF n = 0 THEN {<<>>}
  ELSE LET S == SeqsUpTo(n - 1)
       IN  S \cup {Append(s, v) : s \in {t \in S : Len(t) = n - 1}, v \in Val}

\* a slice of the storage: physical offsets [lo, hi)
View(lo, hi) == [lo |-> lo, hi |-> hi]

ViewLen(v) == v.hi - v.lo

\* the elements a view of block b denotes
ViewSeq(b, v) == [k \in 1..ViewLen(v) |-> b[v.lo + k]]

\* block b after copy(b[off:], vals) where vals fits
WriteAt(b, off, vals) ==
  [i \in 1..Len(b) |->
     IF off < i /\ i <= off + Len(vals) THEN vals[i - off] ELSE b[i]]

\* capacity that append gives a slice grown from nil to k elements: the
\* byte size is rounded up to the allocator's size class
AllocCapGrain(k, g) == ((k + g - 1) \div g) * g

AllocCap(k) == AllocCapGrain(k, grain)

\* the pointer of a newly allocated block: one no queue holds
FreshPtr ==
  LET free == {p \in Ptrs : p # q.ptr /\ p # c.ptr}
  IN  CHOOSE p \in free : \A r \in free : p <= r

\* blocks no queue points to are garbage collected
Collect(m, live) ==
  [p \in DOMAIN m |-> IF p \in live /\ p # NilPtr THEN m[p] ELSE <<>>]

EmptyQueue == [ptr |-> NilPtr, len |-> 0, cap |-> 0, ridx |-> 0, widx |-> 0]

----------------------------------------------------------------------------
(* The operations of src/queue.go as functions of a queue value qq and a   *)
(* heap m; each gives the queue and heap afterwards, whether it panicked,  *)
(* and what it returned.                                                   *)

\* func New[T any](initCapacity uint32) RingQueue[T]
New(initCapacity) ==
  LET cap == AllocCap(initCapacity)
      ptr == IF cap = 0 THEN NilPtr ELSE FreshPtr
  IN  [q |-> [ptr |-> ptr, len |-> 0, cap |-> cap, ridx |-> 0, widx |-> 0],
       block |-> Zeros(cap)]

\* func (q RingQueue[T]) RawSlice() []T
RawSlice(qq, m) == m[qq.ptr]

\* func (q RingQueue[T]) GetDataSlices() [2][]T
GetDataSlices(qq) ==
  LET len_end == U32(qq.ridx + qq.len)
      c1_end == Min(qq.cap, len_end)
      overflow == U32(qq.len - U32(c1_end - qq.ridx))
  IN  [panic |-> ~(qq.ridx <= c1_end /\ c1_end <= qq.cap /\ overflow <= qq.cap),
       c1 |-> View(qq.ridx, c1_end),
       c2 |-> View(0, overflow)]

\* func (q RingQueue[T]) GetFreeSlices() [2][]T
GetFreeSlices(qq) ==
  LET free == U32(qq.cap - qq.len)
      free_end == U32(qq.widx + free)
      c1_end == Min(qq.cap, free_end)
      overflow == U32(free - U32(c1_end - qq.widx))
  IN  [panic |-> ~(qq.widx <= c1_end /\ c1_end <= qq.cap /\ overflow <= qq.cap),
       c1 |-> View(qq.widx, c1_end),
       c2 |-> View(0, overflow)]

\* data[0] ++ data[1] of GetDataSlices: the logical contents of the queue
\* (<<-1>> when taking the slices panics)
Contents(qq, m) ==
  LET d == GetDataSlices(qq)
  IN  IF d.panic THEN <<-1>>
      ELSE ViewSeq(m[qq.ptr], d.c1) \o ViewSeq(m[qq.ptr], d.c2)

\* what a call leaves behind: the queue, the heap, whether it panicked,
\* and (Returned) the values, flag and count it returned
Returned(qq, m, ret, ok, cnt) ==
  [q |-> qq, m |-> m, panic |-> FALSE, ret |-> ret, ok |-> ok, cnt |-> cnt]

Outcome(qq, m, panic) ==
  [q |-> qq, m |-> m, panic |-> panic, ret |-> <<>>, ok |-> FALSE, cnt |-> 0]

\* Clear as it would be if it reset len only
ClearLenOnly(qq, m) ==
  Outcome([qq EXCEPT !.len = 0], m, FALSE)

\* func (q *RingQueue[T]) Clear()
Clear(qq, m) ==
  Outcome([qq EXCEPT !.len = 0, !.ridx = 0, !.widx = 0], m, FALSE)

\* Release as it would be if it only did what Clear does
ReleaseAsClear(qq, m) ==
  Clear(qq, m)

\* func (q *RingQueue[T]) Release()
Release(qq, m) ==
  Outcome([ptr |-> NilPtr, cap |-> 0, len |-> 0, ridx |-> 0, widx |-> 0],
          m, FALSE)

\* func (q *RingQueue[T]) EnsureFreeSpace(n uint32)
EnsureFreeSpaceIf(grow, qq, m, n) ==
  IF grow
  THEN LET k == U32(qq.len + n)
           newCap == AllocCap(k)
           newPtr == IF newCap = 0 THEN NilPtr ELSE FreshPtr
           oldData == GetDataSlices(qq)
       IN  IF oldData.panic
           THEN Outcome(qq, m, TRUE)
           ELSE LET src1 == ViewSeq(m[qq.ptr], oldData.c1)
                    src2 == ViewSeq(m[qq.ptr], oldData.c2)
                    n1 == Min(k, Len(src1))
                    n2 == Min(k - n1, Len(src2))
                    block == WriteAt(WriteAt(Zeros(newCap), 0, Take(src1, n1)),
                                     n1, Take(src2, n2))
                IN  Outcome([ptr |-> newPtr, len |-> qq.len, cap |-> newCap,
                             ridx |-> 0, widx |-> qq.len],
                            [m EXCEPT ![newPtr] = block], FALSE)
  ELSE Outcome(qq, m, FALSE)

\* EnsureFreeSpace as it would be if it looked for free space only between
\* widx and the physical end of the storage
EnsureFreeSpaceContiguous(qq, m, n) ==
  EnsureFreeSpaceIf(U32(qq.cap - qq.widx) < n, qq, m, n)

EnsureFreeSpace(qq, m, n) ==
  EnsureFreeSpaceIf(U32(qq.cap - qq.len) < n, qq, m, n)

\* func (q *RingQueue[T]) InreaseWriteIndex(n uint32)
InreaseWriteIndex(qq, m, n) ==
  LET e == EnsureFreeSpace(qq, m, n)
      w == U32(e.q.widx + n)
  IN  IF e.panic THEN e
      ELSE IF e.q.cap = 0
      THEN Outcome([e.q EXCEPT !.widx = w], e.m, TRUE)
      ELSE Outcome([e.q EXCEPT !.widx = w % e.q.cap, !.len = U32(e.q.len + n)],
                   e.m, FALSE)

\* func (q *RingQueue[T]) InreaseReadIndex(n uint32) (nActual uint32)
InreaseReadIndex(qq, m, n) ==
  LET nActual == Min(qq.len, n)
      r == U32(qq.ridx + nActual)
  IN  IF qq.cap = 0
      THEN Outcome([qq EXCEPT !.ridx = r], m, TRUE)
      ELSE Returned([qq EXCEPT !.ridx = r % qq.cap, !.len = U32(qq.len - nActual)],
                    m, <<>>, FALSE, nActual)

\* func (q *RingQueue[T]) Queue(val T)
Queue(qq, m, val) ==
  LET e == EnsureFreeSpace(qq, m, 1)
      w == U32(e.q.widx + 1)
  IN  IF e.panic THEN e
      ELSE IF e.q.widx >= e.q.cap
      THEN Outcome(e.q, e.m, TRUE)
      ELSE Outcome([e.q EXCEPT !.widx = w % e.q.cap, !.len = U32(e.q.len + 1)],
                   [e.m EXCEPT ![e.q.ptr] = WriteAt(@, e.q.widx, <<val>>)],
                   FALSE)

\* func (q *RingQueue[T]) QueueMany(vals ...T)
QueueMany(qq, m, vals) ==
  LET n == U32(Len(vals))
      e == EnsureFreeSpace(qq, m, n)
      frees == GetFreeSlices(e.q)
      nn == Min(ViewLen(frees.c1), Len(vals))
      n2 == Min(ViewLen(frees.c2), Len(vals) - nn)
      block == WriteAt(WriteAt(e.m[e.q.ptr], frees.c1.lo, Take(vals, nn)),
                       0, Take(Drop(vals, nn), n2))
      w == U32(e.q.widx + n)
  IN  IF e.panic THEN e
      ELSE IF frees.panic
      THEN Outcome(e.q, e.m, TRUE)
      ELSE IF e.q.cap = 0
      THEN Outcome([e.q EXCEPT !.widx = w], e.m, TRUE)
      ELSE Outcome([e.q EXCEPT !.widx = w % e.q.cap, !.len = U32(e.q.len + n)],
                   [e.m EXCEPT ![e.q.ptr] = block], FALSE)

\* func (q *RingQueue[T]) Dequeue() (val T, ok bool)
Dequeue(qq, m) ==
  LET r == U32(qq.ridx + 1)
  IN  IF ~(qq.len > 0)
      THEN Returned(qq, m, <<Zero>>, FALSE, 0)
      ELSE IF qq.ridx >= qq.cap
      THEN Outcome(qq, m, TRUE)
      ELSE Returned([qq EXCEPT !.ridx = r % qq.cap, !.len = U32(qq.len - 1)],
                    m, <<m[qq.ptr][qq.ridx + 1]>>, TRUE, 0)

\* DequeueMany as it would be if it copied from the first data slice only
DequeueManyFirstSlice(qq, m, n) ==
  LET datas == GetDataSlices(qq)
      src1 == ViewSeq(m[qq.ptr], datas.c1)
      nn == Min(n, Len(src1))
      r == U32(qq.ridx + nn)
  IN  IF datas.panic
      THEN Outcome(qq, m, TRUE)
      ELSE IF qq.cap = 0
      THEN Outcome([qq EXCEPT !.ridx = r], m, TRUE)
      ELSE Returned([qq EXCEPT !.ridx = r % qq.cap, !.len = U32(qq.len - nn)],
                    m, Take(src1, nn), FALSE, 0)

\* func (q *RingQueue[T]) DequeueMany(n uint32) (vals []T)
DequeueMany(qq, m, n) ==
  LET datas == GetDataSlices(qq)
      src1 == ViewSeq(m[qq.ptr], datas.c1)
      src2 == ViewSeq(m[qq.ptr], datas.c2)
      n1 == Min(n, Len(src1))
      nn == n1 + Min(n - n1, Len(src2))
      vals == WriteAt(WriteAt(Zeros(n), 0, Take(src1, n1)),
                      n1, Take(src2, nn - n1))
      r == U32(qq.ridx + nn)
  IN  IF datas.panic
      THEN Outcome(qq, m, TRUE)
      ELSE IF qq.cap = 0
      THEN Outcome([qq EXCEPT !.ridx = r], m, TRUE)
      ELSE Returned([qq EXCEPT !.ridx = r % qq.cap, !.len = U32(qq.len - nn)],
                    m, Take(vals, nn), FALSE, 0)

\* func (q *RingQueue[T]) DequeueManyInto(dest []T, n uint32) (nCopied uint32)
\* dest is [len, cap, arr]: arr is its backing array, of cap elements.
\* ret is the backing array afterwards, cnt is nCopied.
DequeueManyInto(qq, m, dest, n) ==
  LET datas == GetDataSlices(qq)
      src1 == ViewSeq(m[qq.ptr], datas.c1)
      src2 == ViewSeq(m[qq.ptr], datas.c2)
      n1 == Min(n, Len(src1))
      nCopied == n1 + Min(n - n1, Len(src2))
      arr == WriteAt(WriteAt(dest.arr, 0, Take(src1, n1)),
                     n1, Take(src2, nCopied - n1))
      r == U32(qq.ridx + nCopied)
  IN  IF datas.panic
      THEN Outcome(qq, m, TRUE)
      ELSE IF n > dest.cap
      THEN Outcome(qq, m, TRUE)
      ELSE IF qq.cap = 0
      THEN Outcome([qq EXCEPT !.ridx = r], m, TRUE)
      ELSE Returned([qq EXCEPT !.ridx = r % qq.cap, !.len = U32(qq.len - nCopied)],
                    m, arr, FALSE, nCopied)

\* Clone as it would be if the new queue kept the storage of the receiver
CloneShared(qq, m) ==
  Outcome([qq EXCEPT !.ridx = 0], m, FALSE)

\* the body of Clone with the new queue constructed by New(initCapacity)
\* q is the new queue; the receiver is not changed.
CloneSized(initCapacity, qq, m) ==
  LET newQueue == New(initCapacity)
      data == GetDataSlices(qq)
      src1 == ViewSeq(m[qq.ptr], data.c1)
      src2 == ViewSeq(m[qq.ptr], data.c2)
      n == Min(newQueue.q.cap, Len(src1))
      n2 == Min(newQueue.q.cap - n, Len(src2))
      block == WriteAt(WriteAt(newQueue.block, 0, Take(src1, n)),
                       n, Take(src2, n2))
  IN  IF data.panic
      THEN Outcome(EmptyQueue, m, TRUE)
      ELSE Outcome([newQueue.q EXCEPT !.len = qq.len, !.ridx = 0,
                                      !.widx = qq.widx],
                   [m EXCEPT ![newQueue.q.ptr] = block], FALSE)

\* Clone as it would be if it sized the new queue to the elements held
CloneToLen(qq, m) ==
  CloneSized(qq.len, qq, m)

\* func (q RingQueue[T]) Clone() RingQueue[T]
Clone(qq, m) ==
  CloneSized(qq.cap, qq, m)

\* func (q *RingQueue[T]) Read(p []T) (n int, err error)
\* p is [len, cap, arr] as in DequeueManyInto; ret is its backing array
\* afterwards, cnt is n, and ok says that err is nil (not io.EOF).
Read(qq, m, p) ==
  LET r == DequeueManyInto(qq, m, p, U32(p.len))
  IN  IF r.panic THEN r
      ELSE Returned(r.q, r.m, r.ret, ~(r.cnt # p.len), r.cnt)

\* func (q *RingQueue[T]) Write(p []T) (n int, err error)
\* cnt is n, and ok says that err is nil.
Write(qq, m, p) ==
  LET r == QueueMany(qq, m, p)
  IN  IF r.panic THEN r
      ELSE Returned(r.q, r.m, <<>>, TRUE, Len(p))

\* func (q *RingQueue[T]) Close() error
\* ok says that the error is nil.
Close(qq, m) ==
  LET r == Release(qq, m)
  IN  Returned(r.q, r.m, <<>>, TRUE, 0)

----------------------------------------------------------------------------
(* The state machine.  q is the queue under test and c a queue made by     *)
(* q.Clone(): cloned is 0 while there is none, and then 1 + the number of  *)
(* calls made since.  list is the plain                                    *)
(* sequence of FuzzQueue (src/queue_test.go) that the same calls are       *)
(* applied to, net counts elements inserted minus elements removed since   *)
(* the last New/Clear/Release, last records the latest call, and panicked  *)
(* says that a call has panicked (nothing runs after).                     *)

\* a call: its name, the queue it was made on, its count argument, the
\* destination it was given, and what it returned
Call(op, on, n, r, dest) ==
  [op |-> op, on |-> on, n |-> n, ret |-> r.ret, ok |-> r.ok, cnt |-> r.cnt,
   dlen |-> dest.len, dcap |-> dest.cap]

NoDest == [len |-> 0, cap |-> 0, arr |-> <<>>]

Init ==
  \E g \in 1..MaxGrain, initCapacity \in 0..MaxCap :
    LET cap == AllocCapGrain(initCapacity, g)
    IN  /\ cap <= MaxCap
        /\ grain = g
        /\ q = [ptr |-> IF cap = 0 THEN NilPtr ELSE 1,
                len |-> 0, cap |-> cap, ridx |-> 0, widx |-> 0]
        /\ mem = [p \in 0..MaxPtr |-> IF p = 1 THEN Zeros(cap) ELSE <<>>]
        /\ c = EmptyQueue
        /\ cloned = 0
        /\ list = <<>>
        /\ net = 0
        /\ panicked = FALSE
        /\ last = Call("New", "q", initCapacity,
                       Outcome(EmptyQueue, <<>>, FALSE), NoDest)

\* the queue a call is made on
Target(on) == IF on = "q" THEN q ELSE c

\* the model explores requests whose rounded capacity is at most MaxCap
Fits(qq, n) ==
  U32(qq.cap - qq.len) < n => AllocCap(U32(qq.len + n)) <= MaxCap

\* the effect of a call on the queue `on` with outcome r; newList and
\* newNet are the reference sequence and the element count of q afterwards
\* (the actions bind r with \E over a one-element set, so that the call is
\* evaluated once)
Commit(on, r, l, newList, newNet) ==
  /\ q' = IF on = "q" THEN r.q ELSE q
  /\ c' = IF on = "c" THEN r.q ELSE c
  /\ mem' = Collect(r.m, {q'.ptr, c'.ptr})
  /\ panicked' = r.panic
  /\ last' = l
  /\ list' = IF on = "q" THEN newList ELSE list
  /\ net' = IF on = "q" /\ ~r.panic THEN newNet ELSE net
  /\ cloned' = IF cloned = 0 THEN 0 ELSE cloned + 1
  /\ UNCHANGED grain

\* the model explores nothing after a request for space that wrapped
Wrapped ==
  /\ last.op \in {"EnsureFreeSpace", "InreaseWriteIndex"}
  /\ last.n \in WideCounts

Enabled(on) ==
  /\ ~panicked
  /\ ~Wrapped
  /\ on = "c" => cloned > 0
  /\ cloned <= MaxAfterClone

DoQueue(on, val) ==
  /\ Enabled(on)
  /\ Fits(Target(on), 1)
  /\ \E r \in {Queue(Target(on), mem, val)} :
         Commit(on, r, Call("Queue", on, 1, r, NoDest),
                Append(list, val), net + 1)

DoQueueMany(on, vals) ==
  /\ Enabled(on)
  /\ Fits(Target(on), Len(vals))
  /\ \E r \in {QueueMany(Target(on), mem, vals)} :
         Commit(on, r,
                Call("QueueMany", on, Len(vals), r, NoDest),
                list \o vals, net + Len(vals))

DoDequeue(on) ==
  /\ Enabled(on)
  /\ \E r \in {Dequeue(Target(on), mem)} :
         Commit(on, r, Call("Dequeue", on, 1, r, NoDest),
                IF Len(list) > 0 THEN Tail(list) ELSE list,
                IF r.ok THEN net - 1 ELSE net)

DoDequeueMany(on, n) ==
  /\ Enabled(on)
  /\ LET lnn == Min(Len(list), n)
     IN  \E r \in {DequeueMany(Target(on), mem, n)} :
         Commit(on, r,
                Call("DequeueMany", on, n, r, NoDest),
                Drop(list, lnn), net - Len(r.ret))

DoDequeueManyInto(on, dlen, dcap, n) ==
  /\ Enabled(on)
  /\ dlen <= dcap
  /\ LET dest == [len |-> dlen, cap |-> dcap, arr |-> Zeros(dcap)]
     IN  \E r \in {DequeueManyInto(Target(on), mem, dest, n)} :
         Commit(on, r,
                Call("DequeueManyInto", on, n, r, dest),
                Contents(r.q, r.m), net - r.cnt)

DoInreaseWriteIndex(on, n) ==
  /\ Enabled(on)
  /\ Fits(Target(on), n)
  /\ \E r \in {InreaseWriteIndex(Target(on), mem, n)} :
         Commit(on, r,
                Call("InreaseWriteIndex", on, n, r, NoDest),
                Contents(r.q, r.m), net + n)

DoInreaseReadIndex(on, n) ==
  /\ Enabled(on)
  /\ \E r \in {InreaseReadIndex(Target(on), mem, n)} :
         Commit(on, r,
                Call("InreaseReadIndex", on, n, r, NoDest),
                Contents(r.q, r.m), net - r.cnt)

DoEnsureFreeSpace(on, n) ==
  /\ Enabled(on)
  /\ Fits(Target(on), n)
  /\ \E r \in {EnsureFreeSpace(Target(on), mem, n)} :
         Commit(on, r,
                Call("EnsureFreeSpace", on, n, r, NoDest),
                Contents(r.q, r.m), net)

DoClear(on) ==
  /\ Enabled(on)
  /\ \E r \in {Clear(Target(on), mem)} :
         Commit(on, r, Call("Clear", on, 0, r, NoDest),
                <<>>, 0)

DoRelease(on) ==
  /\ Enabled(on)
  /\ \E r \in {Release(Target(on), mem)} :
         Commit(on, r, Call("Release", on, 0, r, NoDest),
                <<>>, 0)

\* the calls of FuzzQueue
NextFuzz ==
  \/ \E val \in Val : DoQueue("q", val)
  \/ \E vals \in SeqsUpTo(MaxN) : DoQueueMany("q", vals)
  \/ DoDequeue("q")
  \/ \E n \in TakeCounts : DoDequeueMany("q", n)

SpecFuzz == Init /\ [][NextFuzz]_vars

\* every mutating call, with counts in Counts
Next ==
  \/ \E val \in Val : DoQueue("q", val)
  \/ \E vals \in SeqsUpTo(MaxN) : DoQueueMany("q", vals)
  \/ DoDequeue("q")
  \/ \E n \in TakeCounts : DoDequeueMany("q", n)
  \/ \E dcap \in 0..MaxDest, dlen \in 0..MaxDest, n \in Counts :
       DoDequeueManyInto("q", dlen, dcap, n)
  \/ \E n \in Counts : DoInreaseWriteIndex("q", n)
  \/ \E n \in TakeCounts : DoInreaseReadIndex("q", n)
  \/ \E n \in Counts : DoEnsureFreeSpace("q", n)
  \/ DoClear("q")
  \/ DoRelease("q")

Spec == Init /\ [][Next]_vars

\* the same calls, and EnsureFreeSpace and InreaseWriteIndex with counts
\* that take len + n out of the unsigned range
NextWide ==
  \/ Next
  \/ \E n \in WideCounts : DoEnsureFreeSpace("q", n)
  \/ \E n \in WideCounts : DoInreaseWriteIndex("q", n)

SpecWide == Init /\ [][NextWide]_vars

DoRead(on, dlen, dcap) ==
  /\ Enabled(on)
  /\ dlen <= dcap
  /\ LET p == [len |-> dlen, cap |-> dcap, arr |-> Zeros(dcap)]
     IN  \E r \in {Read(Target(on), mem, p)} :
         Commit(on, r, Call("Read", on, dlen, r, p),
                Contents(r.q, r.m), net - r.cnt)

DoWrite(on, p) ==
  /\ Enabled(on)
  /\ Fits(Target(on), Len(p))
  /\ \E r \in {Write(Target(on), mem, p)} :
         Commit(on, r, Call("Write", on, Len(p), r, NoDest),
                list \o p, net + Len(p))

DoClose(on) ==
  /\ Enabled(on)
  /\ \E r \in {Close(Target(on), mem)} :
         Commit(on, r, Call("Close", on, 0, r, NoDest),
                <<>>, 0)

\* every mutating call, and the io.Reader, io.Writer and io.Closer methods
NextIO ==
  \/ Next
  \/ \E dcap \in 0..MaxDest, dlen \in 0..MaxDest : DoRead("q", dlen, dcap)
  \/ \E p \in SeqsUpTo(MaxN) : DoWrite("q", p)
  \/ DoClose("q")

SpecIO == Init /\ [][NextIO]_vars

\* the calls of FuzzQueue, and Clear
NextClear ==
  \/ NextFuzz
  \/ DoClear("q")

SpecClear == Init /\ [][NextClear]_vars

\* c := q.Clone()
DoClone ==
  /\ ~panicked
  /\ cloned = 0
  /\ q.cap <= MaxCloneCap
  /\ LET r == Clone(q, mem)
     IN  /\ c' = r.q
         /\ mem' = Collect(r.m, {q.ptr, c'.ptr})
         /\ panicked' = r.panic
         /\ last' = Call("Clone", "q", 0, r, NoDest)
  /\ cloned' = 1
  /\ UNCHANGED <<q, grain, list, net>>

\* any mutating call on the queue `on`
Mutate(on) ==
  \/ \E val \in Val : DoQueue(on, val)
  \/ \E vals \in SeqsUpTo(MaxN) : DoQueueMany(on, vals)
  \/ DoDequeue(on)
  \/ \E n \in Counts : DoDequeueMany(on, n)
  \/ \E dcap \in 0..MaxDest, n \in Counts : DoDequeueManyInto(on, dcap, dcap, n)
  \/ \E n \in Counts : DoInreaseWriteIndex(on, n)
  \/ \E n \in Counts : DoInreaseReadIndex(on, n)
  \/ \E n \in Counts : DoEnsureFreeSpace(on, n)
  \/ DoClear(on)
  \/ DoRelease(on)

\* the calls of FuzzQueue on q, then a Clone, then calls on q and on c
NextClone ==
  \/ cloned = 0 /\ NextFuzz
  \/ DoClone
  \/ cloned > 0 /\ Mutate("q")
  \/ cloned > 0 /\ Mutate("c")

SpecClone == Init /\ [][NextClone]_vars

\* a capacity within the documented maximum and above half the unsigned
\* range
BigCap == UintRange - 4

\* q := New(BigCap)
InitBig ==
  \E g \in 1..MaxGrain :
    LET cap == AllocCapGrain(BigCap, g)
    IN  /\ cap < UintRange
        /\ grain = g
        /\ q = [ptr |-> 1, len |-> 0, cap |-> cap, ridx |-> 0, widx |-> 0]
        /\ mem = [p \in 0..MaxPtr |-> IF p = 1 THEN Zeros(cap) ELSE <<>>]
        /\ c = EmptyQueue
        /\ cloned = 0
        /\ list = <<>>
        /\ net = 0
        /\ panicked = FALSE
        /\ last = Call("New", "q", BigCap,
                       Outcome(EmptyQueue, <<>>, FALSE), NoDest)

\* calls that move the indices of the large queue without growing it
NextBig ==
  \/ \E n \in Counts : DoInreaseWriteIndex("q", n)
  \/ \E n \in TakeCounts : DoInreaseReadIndex("q", n)
  \/ DoDequeue("q")
  \/ \E n \in Counts : DoDequeueMany("q", n)

SpecBig == InitBig /\ [][NextBig]_vars

----------------------------------------------------------------------------
(* Claims *)

\* the count a call of DequeueMany(n) or InreaseReadIndex(n) is clamped to
Clamp(n, len) == Min(n, len)

\* C1: Model equivalence.  After every call of Queue, QueueMany, Dequeue or
\* DequeueMany made on a queue from New(c), the call has returned, the
\* concatenated data slices equal the reference sequence the same calls
\* were applied to, and Dequeue/DequeueMany returned what the reference
\* returns.
C1_ModelEquivalence ==
  [][/\ ~panicked'
     /\ Contents(q', mem') = list'
     /\ last'.op = "Dequeue" =>
          /\ last'.ok = (Len(list) > 0)
          /\ last'.ok => last'.ret = <<Head(list)>>
     /\ last'.op = "DequeueMany" =>
          last'.ret = Take(list, Clamp(last'.n, Len(list)))]_vars

\* C2: Length invariant.  In every state reached by the mutating calls,
\* 0 <= len <= cap, and len is the number of elements inserted minus the
\* number removed since the last New/Clear/Release.
C2_LengthInvariant ==
  /\ 0 <= q.len
  /\ q.len <= q.cap
  /\ q.len = net

\* C3: Index invariant.  In every state with cap > 0 reached by the
\* mutating calls, ridx < cap, widx < cap and widx = (ridx + len) mod cap
\* (so ridx = widx when len = cap).
C3_IndexInvariant ==
  q.cap > 0 =>
    /\ q.ridx < q.cap
    /\ q.widx < q.cap
    /\ q.widx = (q.ridx + q.len) % q.cap
    /\ q.len = q.cap => q.ridx = q.widx

\* C4: Empty dequeue is a harmless no-op.  On a queue with len = 0 of any
\* capacity (0 included) Dequeue returns ok = false and DequeueMany(n)
\* returns an empty sequence, neither panics, and len, cap and the contents
\* are unchanged.
C4_EmptyDequeueNoOp ==
  [][(q.len = 0 /\ last'.op \in {"Dequeue", "DequeueMany"}) =>
       /\ ~panicked'
       /\ ~last'.ok
       /\ last'.op = "DequeueMany" => last'.ret = <<>>
       /\ q'.len = q.len
       /\ q'.cap = q.cap
       /\ Contents(q', mem') = Contents(q, mem)]_vars

\* C5: DequeueMany clamps.  On a queue holding len >= 1 elements,
\* DequeueMany(n) returns the first min(n, len) elements in logical order
\* (also when the live region wraps), the contents afterwards are the old
\* contents without that prefix, and the queue is empty when n >= len.
C5_DequeueManyClamps ==
  [][(q.len >= 1 /\ last'.op = "DequeueMany") =>
       LET k == Clamp(last'.n, q.len)
       IN  /\ ~panicked'
           /\ last'.ret = Take(Contents(q, mem), k)
           /\ Contents(q', mem') = Drop(Contents(q, mem), k)
           /\ q'.len = q.len - k
           /\ last'.n >= q.len => q'.len = 0]_vars

\* a DequeueMany(2) has just returned two different elements that lay in
\* the last and the first physical slot, and emptied the queue
C5_Witness ==
  /\ last.op = "DequeueMany"
  /\ last.n = 2
  /\ last.ret = <<1, 0>>
  /\ q.cap = 3
  /\ q.ridx = 1
  /\ q.len = 0
  /\ ~panicked

\* C6: DequeueManyInto(dest, n), for every queue, destination and n (also
\* n larger than the destination), copies min(n, len(dest), len) elements
\* from the front into dest in order, removes them, and returns that
\* number, without failing.
C6_DequeueManyInto ==
  [][last'.op = "DequeueManyInto" =>
       LET k == Min(last'.n, Min(last'.dlen, q.len))
       IN  /\ ~panicked'
           /\ last'.cnt = k
           /\ Take(last'.ret, k) = Take(Contents(q, mem), k)
           /\ Contents(q', mem') = Drop(Contents(q, mem), k)]_vars

\* C7: Clone postcondition.  The queue Clone returns has the contents of
\* the source, ridx = 0 and widx = len mod max(cap, 1), hence
\* widx = (ridx + len) mod cap.
C7_ClonePostcondition ==
  (last.op = "Clone" /\ ~panicked) =>
    /\ Contents(c, mem) = Contents(q, mem)
    /\ c.ridx = 0
    /\ c.widx = c.len % Max(c.cap, 1)

\* C8: Clone independence.  After c := q.Clone() the two queues hold
\* different storage blocks, a call on c changes neither the contents nor
\* len nor cap of q, and a call on q changes neither those of c.
C8_CloneIndependence ==
  [][cloned > 0 =>
       /\ (q'.ptr # NilPtr \/ c'.ptr # NilPtr) => q'.ptr # c'.ptr
       /\ last'.on = "c" =>
            /\ Contents(q', mem') = Contents(q, mem)
            /\ q'.len = q.len
            /\ q'.cap = q.cap
       /\ last'.on = "q" =>
            /\ Contents(c', mem') = Contents(c, mem)
            /\ c'.len = c.len
            /\ c'.cap = c.cap]_vars

\* the clone holds an element, and a call on q has just changed q's
\* contents
C8_Witness ==
  /\ cloned > 1
  /\ last.on = "q"
  /\ last.op = "QueueMany"
  /\ last.n = 2
  /\ c.len >= 1
  /\ Contents(q, mem) # Contents(c, mem)
  /\ ~panicked

\* C9: Growth postcondition.  After EnsureFreeSpace(n), for every n,
\* cap - len >= n, len and the contents are unchanged; if it grew
\* (cap - len < n before) ridx = 0, widx = len and the live elements lie in
\* slots 0..len-1; otherwise ptr, cap, ridx and widx are unchanged.
C9_GrowthPostcondition ==
  [][last'.op = "EnsureFreeSpace" =>
       /\ ~panicked'
       /\ q'.cap - q'.len >= last'.n
       /\ q'.len = q.len
       /\ Contents(q', mem') = Contents(q, mem)
       /\ q.cap - q.len < last'.n =>
            /\ q'.ridx = 0
            /\ q'.widx = q.len
            /\ Take(mem'[q'.ptr], q.len) = Contents(q, mem)
       /\ q.cap - q.len >= last'.n =>
            /\ q'.ptr = q.ptr
            /\ q'.cap = q.cap
            /\ q'.ridx = q.ridx
            /\ q'.widx = q.widx]_vars

\* C10: No unnecessary resize.  Queue with len < cap and QueueMany(vs) with
\* cap - len >= len(vs) leave cap and the storage block unchanged and
\* write the new elements from physical slot widx on, wrapping to slot 0;
\* Dequeue, DequeueMany, DequeueManyInto, InreaseReadIndex and Clear never
\* change cap.
C10_NoUnnecessaryResize ==
  [][/\ (last'.op \in {"Queue", "QueueMany"} /\ q.cap - q.len >= last'.n) =>
          /\ q'.cap = q.cap
          /\ q'.ptr = q.ptr
          /\ ~panicked' =>
               \A i \in 1..last'.n :
                 mem'[q.ptr][((q.widx + i - 1) % q.cap) + 1]
                   = list'[Len(list) + i]
     /\ last'.op \in {"Dequeue", "DequeueMany", "DequeueManyInto",
                      "InreaseReadIndex", "Clear"} =>
          /\ q'.cap = q.cap
          /\ q'.ptr = q.ptr]_vars

\* a QueueMany of two elements has just filled a queue of capacity 3
\* without growing it: it wrote physical slots 2 and 0
C10_Witness ==
  /\ last.op = "QueueMany"
  /\ last.n = 2
  /\ q.cap = 3
  /\ q.ridx = 1
  /\ q.widx = 1
  /\ q.len = 3
  /\ ~panicked

\* C11: Write always succeeds.  For every queue state (zero capacity
\* included) and every p (the empty p included), Write(p) returns without
\* a panic, returns (len(p), nil), and the contents afterwards are the
\* contents before followed by p.
C11_WriteAlwaysSucceeds ==
  [][last'.op = "Write" =>
       /\ ~panicked'
       /\ last'.cnt = last'.n
       /\ last'.ok
       /\ Contents(q', mem') = Contents(q, mem) \o Drop(list', Len(list))]_vars

\* C12: Read end-of-data.  For every queue state (zero capacity included)
\* and every p, Read(p) returns without a panic, n = min(len(p), len), the
\* first n elements of the queue are moved into p in order, and
\* err is io.EOF exactly when n < len(p).
C12_ReadEndOfData ==
  [][last'.op = "Read" =>
       LET n == Min(last'.dlen, q.len)
       IN  /\ ~panicked'
           /\ last'.cnt = n
           /\ Take(last'.ret, n) = Take(Contents(q, mem), n)
           /\ Contents(q', mem') = Drop(Contents(q, mem), n)
           /\ ~last'.ok = (last'.cnt < last'.dlen)]_vars

\* C13: Release/Close idempotence.  From every state Release() and Close()
\* return without a panic and leave cap = len = ridx = widx = 0; called
\* again they change nothing; and the queue they leave is the queue New(0)
\* constructs (no storage block, every field 0), so that every later
\* sequence of calls behaves as on a new queue of capacity 0.
C13_ReleaseIdempotence ==
  [][last'.op \in {"Release", "Close"} =>
       /\ ~panicked'
       /\ q'.cap = 0 /\ q'.len = 0 /\ q'.ridx = 0 /\ q'.widx = 0
       /\ last.op \in {"Release", "Close"} => q' = q /\ mem' = mem
       /\ q' = New(0).q
       /\ mem'[q'.ptr] = New(0).block
       /\ Contents(q', mem') = <<>>
       /\ last'.op = "Close" => last'.ok]_vars

\* Close() has just returned nil, and the queue holds no storage
C13_Witness ==
  /\ last.op = "Close"
  /\ last.ok
  /\ q = EmptyQueue
  /\ list = <<>>
  /\ ~panicked

\* the physical slots of the live region of qq
LiveSlots(qq) ==
  IF qq.cap = 0 THEN {} ELSE {(qq.ridx + i) % qq.cap : i \in 0..(qq.len - 1)}

\* the heap m with the slots of qq outside its live region zeroed, as they
\* are in a newly constructed block
Scrub(qq, m) ==
  [m EXCEPT ![qq.ptr] =
     [i \in 1..Len(@) |-> IF (i - 1) \in LiveSlots(qq) THEN @[i] ELSE Zero]]

\* the outcome of the call recorded in l with the elements vals, made on
\* the queue qq with heap m
Replay(l, vals, qq, m) ==
  IF l.op = "Queue" THEN Queue(qq, m, vals[1])
  ELSE IF l.op = "QueueMany" THEN QueueMany(qq, m, vals)
  ELSE IF l.op = "Dequeue" THEN Dequeue(qq, m)
  ELSE DequeueMany(qq, m, l.n)

\* C14: Clear resets without shrinking.  Clear() leaves len = ridx = widx
\* = 0 with cap and the storage block unchanged, and a second Clear()
\* changes nothing.  The cleared queue differs from the empty queue
\* New(cap) constructs only in the values left in its (dead) slots, and no
\* call of Queue, QueueMany, Dequeue or DequeueMany depends on the values
\* of dead slots: made on the same queue with its dead slots zeroed it has
\* the same outcome (fields, contents, return values, capacity).  Hence
\* every sequence of these calls behaves after Clear() as on a new empty
\* queue of that capacity.
C14_ClearResets ==
  [][/\ last'.op = "Clear" =>
          /\ ~panicked'
          /\ q'.len = 0 /\ q'.ridx = 0 /\ q'.widx = 0
          /\ q'.cap = q.cap /\ q'.ptr = q.ptr
          /\ mem'[q'.ptr] = mem[q.ptr]
          /\ Clear(q', mem').q = q' /\ Clear(q', mem').m = mem'
          /\ [q' EXCEPT !.ptr = NilPtr] = [New(q.cap).q EXCEPT !.ptr = NilPtr]
          /\ Scrub(q', mem')[q'.ptr] = New(q.cap).block
     /\ last'.op \in {"Queue", "QueueMany", "Dequeue", "DequeueMany"} =>
          \E r \in {Replay(last', Drop(list', Len(list)), q, Scrub(q, mem))} :
              /\ r.panic = panicked'
              /\ r.q = q'
              /\ r.ret = last'.ret
              /\ r.ok = last'.ok
              /\ Contents(r.q, r.m) = Contents(q', mem')
              /\ Scrub(r.q, r.m)[r.q.ptr] = Scrub(q', mem')[q'.ptr]]_vars

\* Clear() has just emptied a queue of capacity 3 whose three slots still
\* hold the elements queued before
C14_Witness ==
  /\ last.op = "Clear"
  /\ q.cap = 3
  /\ q.len = 0
  /\ mem[q.ptr] = <<1, 1, 1>>
  /\ ~panicked

\* C15: InreaseReadIndex clamps.  For every queue state (zero capacity
\* included) and every n, InreaseReadIndex(n) returns without a panic,
\* returns nActual = min(n, len), leaves ridx = (ridx + nActual) mod cap
\* and len reduced by nActual, and leaves widx and cap unchanged.
C15_InreaseReadIndexClamps ==
  [][last'.op = "InreaseReadIndex" =>
       LET nActual == Clamp(last'.n, q.len)
       IN  /\ ~panicked'
           /\ last'.cnt = nActual
           /\ q.cap > 0 => q'.ridx = (q.ridx + nActual) % q.cap
           /\ q'.len = q.len - nActual
           /\ q'.widx = q.widx
           /\ q'.cap = q.cap]_vars

\* C16: InreaseWriteIndex extends.  For every queue state (zero capacity
\* included) and every n >= 0 (n = 0 included), InreaseWriteIndex(n)
\* returns without a panic, grows the storage only if cap - len < n, and
\* leaves len increased by n, widx = (ridx + len) mod cap and the old
\* contents as the first elements of the contents; when it did not have to
\* grow, the first n slots of the free slices before the call are the next
\* n elements.
C16_InreaseWriteIndexExtends ==
  [][last'.op = "InreaseWriteIndex" =>
       LET frees == GetFreeSlices(q)
           filled == ViewSeq(mem[q.ptr], frees.c1) \o ViewSeq(mem[q.ptr], frees.c2)
       IN  /\ ~panicked'
           /\ q.cap - q.len >= last'.n => (q'.cap = q.cap /\ q'.ptr = q.ptr)
           /\ q'.len = q.len + last'.n
           /\ q'.cap > 0 => q'.widx = (q'.ridx + q'.len) % q'.cap
           /\ Take(Contents(q', mem'), q.len) = Contents(q, mem)
           /\ q.cap - q.len >= last'.n =>
                Drop(Contents(q', mem'), q.len) = Take(filled, last'.n)]_vars

\* C18 as stated: Clone sizing.  The queue Clone() returns owns a new
\* storage block whose capacity is exactly the len of the source (not its
\* cap).
C18_CloneSizedToLen ==
  (last.op = "Clone" /\ ~panicked) =>
    /\ c.cap = q.len
    /\ Len(mem[c.ptr]) = c.cap
    /\ c.cap > 0 => (c.ptr # NilPtr /\ c.ptr # q.ptr)

\* C18 amended: Clone sizing.  The queue Clone() returns has exactly the
\* cap of the source (not its len), and when that is not 0 it owns a new
\* storage block of that many slots, different from the source's.
C18_CloneSizedToCap ==
  (last.op = "Clone" /\ ~panicked) =>
    /\ c.cap = q.cap
    /\ Len(mem[c.ptr]) = c.cap
    /\ c.cap > 0 => (c.ptr # NilPtr /\ c.ptr # q.ptr)

\* Clone() has just returned the clone of a queue that holds one element in
\* two slots: the clone has two slots
C18_Witness ==
  /\ last.op = "Clone"
  /\ q.len = 1
  /\ q.cap = 2
  /\ c.cap = 2
  /\ c.len = 1
  /\ ~panicked

\* C19: uint32 range.  In every state of a queue whose capacity and
\* length lie within the documented maximum, the sums ridx + len and
\* widx + (cap - len) stay within the unsigned range, so that the data and
\* free slices can be taken and the data slices hold the len elements of
\* the queue.
C19_UintRange ==
  ~panicked =>
    /\ q.ridx + q.len < UintRange
    /\ q.widx + (q.cap - q.len) < UintRange
    /\ ~GetDataSlices(q).panic
    /\ ~GetFreeSlices(q).panic
    /\ Len(Contents(q, mem)) = q.len

\* the physical slots of a view
Slots(v) == v.lo..(v.hi - 1)

\* the four slices of qq split its storage
Partition(qq) ==
  LET d == GetDataSlices(qq)
      f == GetFreeSlices(qq)
      ranges == <<d.c1, d.c2, f.c1, f.c2>>
  IN
    /\ ~d.panic
    /\ ~f.panic
    /\ \A i \in 1..4, j \in 1..4 :
         i # j => Slots(ranges[i]) \cap Slots(ranges[j]) = {}
    /\ UNION {Slots(ranges[i]) : i \in 1..4} = 0..(qq.cap - 1)
    /\ d.c1 = View(qq.ridx, Min(qq.cap, qq.ridx + qq.len))
    /\ d.c2 = View(0, qq.len - ViewLen(d.c1))
    /\ ViewLen(d.c1) + ViewLen(d.c2) = qq.len
    /\ f.c1.lo = qq.widx
    /\ ViewLen(f.c1) + ViewLen(f.c2) = qq.cap - qq.len

\* C20: Views partition the storage.  In every state of every queue the
\* program holds (q, and the queue Clone returned), the two data slices and
\* the two free slices can be taken and cover pairwise disjoint slot ranges
\* whose union is [0, cap); the data slices are [ridx, min(cap, ridx+len))
\* and [0, len - first length), the free slices start at widx and have
\* total length cap - len.
C20_ViewsPartition ==
  ~panicked =>
    /\ Partition(q)
    /\ cloned > 0 => Partition(c)

====
